---- MODULE Spec2Model ----
(***************************************************************************)
(* Model of crates/storage/nippy-jar/src/compression/zstd.rs: the Zstd     *)
(* engine (readiness state, per-column raw dictionaries), its resource     *)
(* factory, the dictionary codec operations with their retry loops, and    *)
(* the plain stream codec.                                                 *)
(***************************************************************************)
EXTENDS Integers, Sequences, FiniteSets, TLC

\* ---------------------------------------------------------------- bounds
MaxColumns == 2
MaxLen == 2
MaxInitCap == 1
MaxBlocks == 2
MaxOutCap == 3

\* -------------------------------------------------------- basic data
Byte == {0, 1}

\* Option<T>: None is the empty sequence, Some(x) the one-element sequence.
None == <<>>

Some(x) == <<x>>

IsSome(o) == Len(o) = 1

Unwrap(o) == o[1]

\* Result<T, NippyJarError> of a call: the operation, the error variant
\* ("" for Ok), the variant's fields, the Ok payload, the argument size the
\* call was given and the answers of the codec calls it made, in call order.
Ok(op, v, arg, codec) ==
    [op |-> op, err |-> "", info |-> <<>>, val |-> <<v>>,
     arg |-> arg, codec |-> codec]

Err(op, e, info, arg, codec) ==
    [op |-> op, err |-> e, info |-> info, val |-> <<>>,
     arg |-> arg, codec |-> codec]

NoCall ==
    [op |-> "new", err |-> "", info |-> <<>>, val |-> <<>>,
     arg |-> 0, codec |-> <<>>]

\* Dictionary size limits an engine is configured with.
DictSizes == {1, 2}

\* Training inputs: each column group is an iterable of sample values.
SampleSets == { << <<>> >>, << <<0>> >>, << <<1>>, <<0>> >> }

ColumnGroups ==
    UNION { [1..k -> SampleSets] : k \in 0..(MaxColumns + 1) }

\* ------------------------------------------------------------- state
VARIABLES
    state,             \* Zstd.state
    use_dict,          \* Zstd.use_dict
    max_dict_size,     \* Zstd.max_dict_size
    raw_dictionaries,  \* Zstd.raw_dictionaries: Option<Vec<RawDictionary>>
    columns,           \* Zstd.columns
    decode_dicts,      \* the caller's Option<Vec<DecoderDictionary>>
    ret,               \* the Result returned by the last call
    compressor,        \* codec session: one column's Compressor, if any
    decompressor,      \* codec session: the same column's Decompressor
    tmp_buf,           \* the caller's scratch Vec<u8>: [data, cap]
    handle,            \* the bytes of the output File
    written,           \* per successful write: [block, value, compressed]
    output,            \* the caller's output Vec<u8>: [data, cap]
    pc,                \* "idle", or the codec operation in its retry loop
    column_value,      \* argument of the codec operation in progress
    multiplier,        \* the retry loop's local
    attempts,          \* codec invocations of the current or last operation
    faults,            \* the codec failed other than for want of room
    plain_src,         \* plain codec: the bytes given to compress_to
    plain_dest         \* plain codec: what compress_to wrote to dest

engine == <<state, use_dict, max_dict_size, raw_dictionaries, columns>>

session == <<compressor, decompressor>>

codec == <<tmp_buf, handle, written, output, pc, column_value, multiplier,
           attempts, faults>>

plain == <<plain_src, plain_dest>>

vars == <<state, use_dict, max_dict_size, raw_dictionaries, columns,
          decode_dicts, ret, compressor, decompressor, tmp_buf, handle,
          written, output, pc, column_value, multiplier, attempts, faults,
          plain_src, plain_dest>>

\* ------------------------------------------------------ codec: training
RECURSIVE Flatten(_)
\* column.into_iter().flat_map(|data| data).collect()
Flatten(samples) ==
    IF samples = <<>> THEN <<>> ELSE Head(samples) \o Flatten(Tail(samples))

\* sizes.push(data.len()) for every sample
Sizes(samples) == [i \in 1..Len(samples) |-> Len(samples[i])]

Prefix(s, n) == SubSeq(s, 1, IF Len(s) < n THEN Len(s) ELSE n)

\* zstd::dict::from_continuous(&data, &sizes, max_dict_size): fails when the
\* samples carry no bytes, else a dictionary of at most max_dict_size bytes.
from_continuous(data, sizes, max) ==
    IF Len(sizes) = 0 \/ Len(data) = 0
    THEN [ok |-> FALSE, dict |-> <<>>]
    ELSE [ok |-> TRUE, dict |-> Prefix(data, max)]

\* Compressor::with_dictionary / Decompressor::with_prepared_dictionary:
\* the codec refuses a dictionary it cannot load.
DictLoadable(dict) == Len(dict) > 0

\* ------------------------------------------------------------ Zstd::new
\* Faulty variant: the constructor starts every engine in the enum's default state.
NewState_Default(ud) == "PendingDictionary"

\* state: if use_dict { PendingDictionary } else { Ready }
NewState(ud) == IF ud THEN "PendingDictionary" ELSE "Ready"

new(ud, mds, cols) ==
    /\ state = NewState(ud)
    /\ use_dict = ud
    /\ max_dict_size = mds
    /\ raw_dictionaries = None
    /\ columns = cols

\* Compression::is_ready
is_ready == state = "Ready"

\* ------------------------------------ Zstd::generate_decompress_dictionaries
\* DecoderDictionary::copy(dict)
DecoderDictionaryCopy(dict) == dict

\* Faulty variant: the last column's dictionary is not converted.
DecompressDictionaries_DropLast(raw) ==
    IF IsSome(raw)
    THEN Some(SubSeq(Unwrap(raw), 1, Len(Unwrap(raw)) - 1))
    ELSE None

\* self.raw_dictionaries.take().map(|dicts| dicts.iter().map(copy).collect())
DecompressDictionaries(raw) ==
    IF IsSome(raw)
    THEN Some([i \in 1..Len(Unwrap(raw)) |-> DecoderDictionaryCopy(Unwrap(raw)[i])])
    ELSE None

\* Faulty variant: the stored dictionaries are borrowed, not taken.
TakeRaw_Keep(raw) == raw

\* Option::take leaves None behind
TakeRaw(raw) == None

generate_decompress_dictionaries ==
    /\ decode_dicts' = DecompressDictionaries(raw_dictionaries)
    /\ raw_dictionaries' = TakeRaw(raw_dictionaries)
    /\ ret' = Ok("generate_decompress_dictionaries",
                 DecompressDictionaries(raw_dictionaries), 0, <<>>)
    /\ UNCHANGED <<state, use_dict, max_dict_size, columns, session, codec,
                   plain>>

\* ----------------------------------------------- Zstd::generate_decompressors
\* dictionaries.iter().map(Decompressor::with_prepared_dictionary).collect()?
DecompressorsResult(dictionaries) ==
    IF \A i \in 1..Len(dictionaries) : DictLoadable(dictionaries[i])
    THEN Ok("generate_decompressors", dictionaries,
            Len(dictionaries), dictionaries)
    ELSE Err("generate_decompressors", "Codec", <<>>,
             Len(dictionaries), dictionaries)

generate_decompressors ==
    /\ IsSome(decode_dicts)
    /\ \E debug \in BOOLEAN :
        LET dictionaries == Unwrap(decode_dicts)
            res == IF debug /\ Len(dictionaries) # columns
                   THEN Err("generate_decompressors", "AssertionFailed",
                            <<Len(dictionaries), columns>>,
                            Len(dictionaries), <<>>)
                   ELSE DecompressorsResult(dictionaries)
        IN ret' = res
    /\ UNCHANGED <<engine, decode_dicts, session, codec, plain>>

\* ------------------------------------------------- Zstd::generate_compressors
\* Faulty variant: the readiness check is missing.
CompressorsResult_NoGate(st, ud, raw) ==
    IF ~ud
    THEN Ok("generate_compressors", None, 0, <<>>)
    ELSE IF IsSome(raw)
    THEN Ok("generate_compressors", Some(Unwrap(raw)), 0, Unwrap(raw))
    ELSE Ok("generate_compressors", None, 0, <<>>)

\* Faulty variant: compressors are built for all but the last column.
CompressorsResult_DropLast(st, ud, raw) ==
    IF st = "PendingDictionary"
    THEN Err("generate_compressors", "CompressorNotReady", <<>>, 0, <<>>)
    ELSE IF ~ud
    THEN Ok("generate_compressors", None, 0, <<>>)
    ELSE IF IsSome(raw)
    THEN Ok("generate_compressors",
            Some(SubSeq(Unwrap(raw), 1, Len(Unwrap(raw)) - 1)), 0, Unwrap(raw))
    ELSE Ok("generate_compressors", None, 0, <<>>)

CompressorsResult(st, ud, raw) ==
    IF st = "PendingDictionary"
    THEN Err("generate_compressors", "CompressorNotReady", <<>>, 0, <<>>)
    ELSE IF ~ud
    THEN Ok("generate_compressors", None, 0, <<>>)
    ELSE IF IsSome(raw)
    THEN IF \A i \in 1..Len(Unwrap(raw)) : DictLoadable(Unwrap(raw)[i])
         THEN Ok("generate_compressors", Some(Unwrap(raw)), 0, Unwrap(raw))
         ELSE Err("generate_compressors", "Codec", <<>>, 0, Unwrap(raw))
    ELSE Ok("generate_compressors", None, 0, <<>>)

generate_compressors ==
    LET res == CompressorsResult(state, use_dict, raw_dictionaries)
    IN /\ ret' = res
       /\ UNCHANGED <<engine, decode_dicts, session, codec, plain>>

\* ------------------------------------------ Compression::prepare_compression
\* The codec's answer for each supplied column, in order.
Trainings(cols, mds) ==
    [i \in 1..Len(cols) |->
        from_continuous(Flatten(cols[i]), Sizes(cols[i]), mds)]

\* Index of the first column whose training fails, 0 when all succeed.
FirstFailure(ts) ==
    IF \A i \in 1..Len(ts) : ts[i].ok THEN 0
    ELSE CHOOSE i \in 1..Len(ts) :
            /\ ~ts[i].ok
            /\ \A j \in 1..(i - 1) : ts[j].ok

\* Faulty variant: the column count is compared after training, so a mismatching
\* call trains the supplied columns and stores their dictionaries.
PrepareCompression_LateCheck(st, ud, raw, ncols, mds, cols) ==
    IF ~ud
    THEN [state |-> st, raw |-> raw,
          ret |-> Ok("prepare_compression", <<>>, Len(cols), <<>>)]
    ELSE LET ts == Trainings(cols, mds)
             f == FirstFailure(ts)
         IN IF f # 0
            THEN [state |-> st, raw |-> raw,
                  ret |-> Err("prepare_compression", "Codec", <<f>>,
                              Len(cols), SubSeq(ts, 1, f))]
            ELSE IF Len(cols) # ncols
            THEN [state |-> "Ready",
                  raw |-> Some([i \in 1..Len(ts) |-> ts[i].dict]),
                  ret |-> Err("prepare_compression", "ColumnLenMismatch",
                              <<ncols, Len(cols)>>, Len(cols), ts)]
            ELSE [state |-> "Ready",
                  raw |-> Some([i \in 1..Len(ts) |-> ts[i].dict]),
                  ret |-> Ok("prepare_compression", <<>>, Len(cols), ts)]

\* Faulty variant: the dictionaries are stored in reverse column order.
PrepareCompression_Reversed(st, ud, raw, ncols, mds, cols) ==
    IF ~ud
    THEN [state |-> st, raw |-> raw,
          ret |-> Ok("prepare_compression", <<>>, Len(cols), <<>>)]
    ELSE IF Len(cols) # ncols
    THEN [state |-> st, raw |-> raw,
          ret |-> Err("prepare_compression", "ColumnLenMismatch",
                      <<ncols, Len(cols)>>, Len(cols), <<>>)]
    ELSE LET ts == Trainings(cols, mds)
             f == FirstFailure(ts)
         IN IF f # 0
            THEN [state |-> st, raw |-> raw,
                  ret |-> Err("prepare_compression", "Codec", <<f>>,
                              Len(cols), SubSeq(ts, 1, f))]
            ELSE [state |-> "Ready",
                  raw |-> Some([i \in 1..Len(ts) |->
                                  ts[Len(ts) + 1 - i].dict]),
                  ret |-> Ok("prepare_compression", <<>>, Len(cols), ts)]

\* Faulty variant: the dictionaries trained before a failing column are stored
\* and the engine is marked ready.
PrepareCompression_PartialStore(st, ud, raw, ncols, mds, cols) ==
    IF ~ud
    THEN [state |-> st, raw |-> raw,
          ret |-> Ok("prepare_compression", <<>>, Len(cols), <<>>)]
    ELSE IF Len(cols) # ncols
    THEN [state |-> st, raw |-> raw,
          ret |-> Err("prepare_compression", "ColumnLenMismatch",
                      <<ncols, Len(cols)>>, Len(cols), <<>>)]
    ELSE LET ts == Trainings(cols, mds)
             f == FirstFailure(ts)
         IN IF f # 0
            THEN [state |-> "Ready",
                  raw |-> Some([i \in 1..(f - 1) |-> ts[i].dict]),
                  ret |-> Err("prepare_compression", "Codec", <<f>>,
                              Len(cols), SubSeq(ts, 1, f))]
            ELSE [state |-> "Ready",
                  raw |-> Some([i \in 1..Len(ts) |-> ts[i].dict]),
                  ret |-> Ok("prepare_compression", <<>>, Len(cols), ts)]

\* Faulty variant: there is no early return for an engine without dictionaries.
PrepareCompression_NoShortcut(st, ud, raw, ncols, mds, cols) ==
    IF Len(cols) # ncols
    THEN [state |-> st, raw |-> raw,
          ret |-> Err("prepare_compression", "ColumnLenMismatch",
                      <<ncols, Len(cols)>>, Len(cols), <<>>)]
    ELSE LET ts == Trainings(cols, mds)
             f == FirstFailure(ts)
         IN IF f # 0
            THEN [state |-> st, raw |-> raw,
                  ret |-> Err("prepare_compression", "Codec", <<f>>,
                              Len(cols), SubSeq(ts, 1, f))]
            ELSE [state |-> "Ready",
                  raw |-> Some([i \in 1..Len(ts) |-> ts[i].dict]),
                  ret |-> Ok("prepare_compression", <<>>, Len(cols), ts)]

\* Faulty variant: a failed training discards the stored dictionaries and
\* returns the engine to PendingDictionary.
PrepareCompression_ResetOnFail(st, ud, raw, ncols, mds, cols) ==
    IF ~ud
    THEN [state |-> st, raw |-> raw,
          ret |-> Ok("prepare_compression", <<>>, Len(cols), <<>>)]
    ELSE IF Len(cols) # ncols
    THEN [state |-> st, raw |-> raw,
          ret |-> Err("prepare_compression", "ColumnLenMismatch",
                      <<ncols, Len(cols)>>, Len(cols), <<>>)]
    ELSE LET ts == Trainings(cols, mds)
             f == FirstFailure(ts)
         IN IF f # 0
            THEN [state |-> "PendingDictionary", raw |-> None,
                  ret |-> Err("prepare_compression", "Codec", <<f>>,
                              Len(cols), SubSeq(ts, 1, f))]
            ELSE [state |-> "Ready",
                  raw |-> Some([i \in 1..Len(ts) |-> ts[i].dict]),
                  ret |-> Ok("prepare_compression", <<>>, Len(cols), ts)]

\* Faulty variant: the trained dictionaries are stored but the engine is not
\* marked ready.
PrepareCompression_NoReady(st, ud, raw, ncols, mds, cols) ==
    IF ~ud
    THEN [state |-> st, raw |-> raw,
          ret |-> Ok("prepare_compression", <<>>, Len(cols), <<>>)]
    ELSE IF Len(cols) # ncols
    THEN [state |-> st, raw |-> raw,
          ret |-> Err("prepare_compression", "ColumnLenMismatch",
                      <<ncols, Len(cols)>>, Len(cols), <<>>)]
    ELSE LET ts == Trainings(cols, mds)
             f == FirstFailure(ts)
         IN IF f # 0
            THEN [state |-> st, raw |-> raw,
                  ret |-> Err("prepare_compression", "Codec", <<f>>,
                              Len(cols), SubSeq(ts, 1, f))]
            ELSE [state |-> st,
                  raw |-> Some([i \in 1..Len(ts) |-> ts[i].dict]),
                  ret |-> Ok("prepare_compression", <<>>, Len(cols), ts)]

\* The post-state and result of prepare_compression(cols) on an engine.
PrepareCompression(st, ud, raw, ncols, mds, cols) ==
    IF ~ud
    THEN [state |-> st, raw |-> raw,
          ret |-> Ok("prepare_compression", <<>>, Len(cols), <<>>)]
    ELSE IF Len(cols) # ncols
    THEN [state |-> st, raw |-> raw,
          ret |-> Err("prepare_compression", "ColumnLenMismatch",
                      <<ncols, Len(cols)>>, Len(cols), <<>>)]
    ELSE LET ts == Trainings(cols, mds)
             f == FirstFailure(ts)
         IN IF f # 0
            THEN [state |-> st, raw |-> raw,
                  ret |-> Err("prepare_compression", "Codec", <<f>>,
                              Len(cols), SubSeq(ts, 1, f))]
            ELSE [state |-> "Ready",
                  raw |-> Some([i \in 1..Len(ts) |-> ts[i].dict]),
                  ret |-> Ok("prepare_compression", <<>>, Len(cols), ts)]

prepare_compression ==
    \E cols \in ColumnGroups :
        LET r == PrepareCompression(state, use_dict, raw_dictionaries,
                                    columns, max_dict_size, cols)
        IN /\ state' = r.state
           /\ raw_dictionaries' = r.raw
           /\ ret' = r.ret
           /\ UNCHANGED <<use_dict, max_dict_size, columns, decode_dicts,
                          session, codec, plain>>

\* ------------------------------------------------------------ behaviours
\* ------------------------------------------------- codec: block operations
\* Column values given to the codec operations: one of each length.
Values == { [i \in 1..n |-> i % 2] : n \in 0..MaxLen }

RECURSIVE DictId(_)
\* The dictionary identifier a frame carries: distinct dictionaries have
\* distinct identifiers, and no dictionary has identifier 1.
DictId(dict) ==
    IF dict = <<>> THEN 1
    ELSE 2 * DictId(SubSeq(dict, 1, Len(dict) - 1)) + dict[Len(dict)]

\* The frame the codec emits for src under a dictionary: the dictionary
\* identifier, the content size, the content.
Frame(dict, src) == <<DictId(dict), Len(src)>> \o src

WellFormed(block) == Len(block) >= 2 /\ Len(block) = 2 + block[2]

\* Compressor::compress_to_buffer(src, dst): writes the frame at the start of
\* dst and sets its length; fails, leaving dst alone, when dst's capacity is
\* too small or when the codec fails for another reason (fault).
compress_to_buffer(dict, src, dst, fault) ==
    IF fault THEN [err |-> "Generic", buf |-> dst]
    ELSE IF dst.cap < Len(Frame(dict, src))
    THEN [err |-> "DstTooSmall", buf |-> dst]
    ELSE [err |-> "", buf |-> [data |-> Frame(dict, src), cap |-> dst.cap]]

\* Decompressor::decompress_to_buffer(src, dst)
decompress_to_buffer(dict, src, dst, fault) ==
    IF fault THEN [err |-> "Generic", buf |-> dst]
    ELSE IF ~WellFormed(src) THEN [err |-> "Corrupt", buf |-> dst]
    ELSE IF src[1] # DictId(dict) THEN [err |-> "DictMismatch", buf |-> dst]
    ELSE IF dst.cap < src[2] THEN [err |-> "DstTooSmall", buf |-> dst]
    ELSE [err |-> "", buf |-> [data |-> SubSeq(src, 3, Len(src)),
                               cap |-> dst.cap]]

\* Decompressor::upper_bound(src): the content size a readable frame declares.
upper_bound(src) == IF WellFormed(src) THEN Some(src[2]) ELSE None

Max(a, b) == IF a < b THEN b ELSE a

\* usize::saturating_sub
saturating_sub(a, b) == IF a > b THEN a - b ELSE 0

\* Vec::reserve(additional): nothing when capacity - len already covers
\* additional; else the capacity becomes the larger of twice the old one and
\* len + additional, and never less than 8 bytes.
reserve(buf, additional) ==
    IF buf.cap - Len(buf.data) >= additional THEN buf
    ELSE [buf EXCEPT !.cap = Max(Max(2 * buf.cap, Len(buf.data) + additional), 8)]

\* Faulty variant: the buffer is left as it is.
clear_Keep(buf) == buf

\* Vec::clear keeps the capacity
clear(buf) == [buf EXCEPT !.data = <<>>]

\* if multiplier == 5 { return Err(Disconnect(err)) }
DisconnectAt == 5

\* Faulty variant: the multiplier is not advanced.
NextMultiplier_Stuck(m) == m

\* multiplier += 1
NextMultiplier(m) == m + 1

Exhausted(m) == m = DisconnectAt

\* Count of codec invocations, kept up to one past the loop's limit.
Counted(n) == IF n > DisconnectAt THEN n ELSE n + 1

\* Faulty variant: every write is preceded by its length.
write_all_Framed(sink, buf, io) == sink \o <<Len(buf)>> \o SubSeq(buf, 1, io)

\* handle.write_all(buf): the sink after it took the first io bytes of buf;
\* the write succeeds when it took them all.
write_all(sink, buf, io) == sink \o SubSeq(buf, 1, io)

\* ------------------------------------------- Zstd::compress_with_dictionary
\* Entry: binds the arguments; without a compressor the value is written
\* through and the call returns. io is the number of bytes the sink took
\* before failing, all of them when write_all succeeds.
compress_with_dictionary ==
    /\ pc = "idle"
    /\ \E v \in Values, given \in BOOLEAN :
        /\ column_value' = v
        /\ attempts' = 0
        /\ faults' = FALSE
        /\ \/ /\ given
              /\ IsSome(compressor)
              /\ pc' = "compress"
              /\ multiplier' = 1
              /\ UNCHANGED <<ret, tmp_buf, handle, written>>
           \/ /\ ~given
              /\ \E io \in 0..Len(v) :
                  /\ handle' = write_all(handle, v, io)
                  /\ IF io = Len(v)
                     THEN /\ written' = Append(written,
                                [block |-> v, value |-> v, compressed |-> FALSE])
                          /\ ret' = Ok("compress_with_dictionary", <<>>,
                                       Len(v), <<>>)
                     ELSE /\ written' = written
                          /\ ret' = Err("compress_with_dictionary", "Io", <<>>,
                                        Len(v), <<>>)
              /\ UNCHANGED <<pc, multiplier, tmp_buf>>
    /\ UNCHANGED <<engine, decode_dicts, session, output, plain>>

\* One turn of `while let Err(err) = compressor.compress_to_buffer(..)`, and
\* on Ok the write to the sink and the clearing of the scratch buffer.
compress_attempt ==
    /\ pc = "compress"
    /\ \E fault \in BOOLEAN :
        LET r == compress_to_buffer(Unwrap(compressor), column_value, tmp_buf,
                                    fault)
        IN /\ attempts' = Counted(attempts)
           /\ faults' = (faults \/ fault)
           /\ \/ /\ r.err # ""
                 /\ tmp_buf' = reserve(tmp_buf, Len(column_value) * multiplier)
                 /\ multiplier' = NextMultiplier(multiplier)
                 /\ IF Exhausted(NextMultiplier(multiplier))
                    THEN /\ ret' = Err("compress_with_dictionary", "Disconnect",
                                       <<r.err>>, Len(column_value), <<>>)
                         /\ pc' = "idle"
                    ELSE UNCHANGED <<ret, pc>>
                 /\ UNCHANGED <<handle, written>>
              \/ /\ r.err = ""
                 /\ pc' = "idle"
                 /\ \E io \in 0..Len(r.buf.data) :
                     /\ handle' = write_all(handle, r.buf.data, io)
                     /\ IF io = Len(r.buf.data)
                        THEN /\ tmp_buf' = clear(r.buf)
                             /\ written' = Append(written,
                                   [block |-> r.buf.data, value |-> column_value,
                                    compressed |-> TRUE])
                             /\ ret' = Ok("compress_with_dictionary", <<>>,
                                          Len(column_value), <<>>)
                        ELSE /\ tmp_buf' = r.buf
                             /\ written' = written
                             /\ ret' = Err("compress_with_dictionary", "Io",
                                           <<>>, Len(column_value), <<>>)
                 /\ UNCHANGED multiplier
    /\ UNCHANGED <<engine, decode_dicts, session, output, column_value, plain>>

\* ----------------------------------------- Zstd::decompress_with_dictionary
\* let required_capacity = column_value.len() * 2
required_capacity(cv) == Len(cv) * 2

\* Entry: binds the arguments and reserves the estimated capacity.
decompress_with_dictionary ==
    /\ pc = "idle"
    /\ IsSome(decompressor)
    /\ \E i \in 1..Len(written) :
        LET cv == written[i].block
        IN /\ column_value' = cv
           /\ multiplier' = 1
           /\ output' = reserve(output,
                  saturating_sub(required_capacity(cv), output.cap))
    /\ pc' = "decompress"
    /\ attempts' = 0
    /\ faults' = FALSE
    /\ UNCHANGED <<engine, decode_dicts, ret, session, tmp_buf, handle,
                   written, plain>>

\* One turn of `while let Err(err) = decompressor.decompress_to_buffer(..)`.
decompress_attempt ==
    /\ pc = "decompress"
    /\ \E fault \in BOOLEAN :
        LET r == decompress_to_buffer(Unwrap(decompressor), column_value,
                                      output, fault)
            ub == upper_bound(column_value)
            bound == IF IsSome(ub) THEN Unwrap(ub)
                     ELSE required_capacity(column_value)
        IN /\ attempts' = Counted(attempts)
           /\ faults' = (faults \/ fault)
           /\ \/ /\ r.err # ""
                 /\ output' = reserve(output, bound * multiplier)
                 /\ multiplier' = NextMultiplier(multiplier)
                 /\ IF Exhausted(NextMultiplier(multiplier))
                    THEN /\ ret' = Err("decompress_with_dictionary",
                                       "Disconnect", <<r.err>>,
                                       Len(column_value), <<>>)
                         /\ pc' = "idle"
                    ELSE UNCHANGED <<ret, pc>>
              \/ /\ r.err = ""
                 /\ output' = r.buf
                 /\ pc' = "idle"
                 /\ ret' = Ok("decompress_with_dictionary", <<>>,
                              Len(column_value), <<>>)
                 /\ UNCHANGED multiplier
    /\ UNCHANGED <<engine, decode_dicts, session, tmp_buf, handle, written,
                   column_value, plain>>

\* ----------------------------------------------------- plain stream codec
\* zstd::Encoder::new(dest, level), write_all(src), finish(): one frame
\* that names no dictionary.
StreamFrame(src) == Frame(<<>>, src)

\* Read::read_exact(buf) on a zstd::Decoder over value: fills the n bytes of
\* buf from the decoded content; a buffer of no bytes is filled at once.
read_exact(value, n) ==
    IF n = 0 THEN [err |-> "", data |-> <<>>]
    ELSE IF ~WellFormed(value) \/ value[1] # DictId(<<>>)
    THEN [err |-> "Io", data |-> <<>>]
    ELSE IF value[2] < n THEN [err |-> "Io", data |-> <<>>]
    ELSE [err |-> "", data |-> SubSeq(value, 3, 2 + n)]

\* Vec::with_capacity(capacity): no bytes yet
with_capacity(capacity) == [data |-> <<>>, cap |-> capacity]

\* Compression::decompress(value): read_exact is given the vector's
\* initialized bytes, and the vector is returned.
Decompress(value) ==
    LET decompressed == with_capacity(Len(value) * 2)
        r == read_exact(value, Len(decompressed.data))
    IN IF r.err # ""
       THEN Err("decompress", r.err, <<>>, Len(value), <<>>)
       ELSE Ok("decompress", r.data, Len(value), <<>>)

\* Compression::compress_to(src, dest): dest is a fresh writer each call; io
\* is the number of bytes it took before failing, all when it did not fail.
compress_to ==
    /\ \E src \in Values, io \in 0..(2 + MaxLen) :
        /\ io <= Len(StreamFrame(src))
        /\ plain_src' = src
        /\ plain_dest' = SubSeq(StreamFrame(src), 1, io)
        /\ ret' = IF io = Len(StreamFrame(src))
                  THEN Ok("compress_to", <<>>, Len(src), <<>>)
                  ELSE Err("compress_to", "Io", <<>>, Len(src), <<>>)
    /\ UNCHANGED <<engine, decode_dicts, session, codec>>

decompress ==
    /\ ret' = Decompress(plain_dest)
    /\ UNCHANGED <<engine, decode_dicts, session, codec, plain>>

\* ------------------------------------------------------------ behaviours
\* No codec session: no handles, empty buffers, nothing written.
NoSession ==
    /\ compressor = None
    /\ decompressor = None
    /\ tmp_buf = [data |-> <<>>, cap |-> 0]
    /\ handle = <<>>
    /\ written = <<>>
    /\ output = [data |-> <<>>, cap |-> 0]
    /\ pc = "idle"
    /\ column_value = <<>>
    /\ multiplier = 1
    /\ attempts = 0
    /\ faults = FALSE

NoPlain ==
    /\ plain_src = <<>>
    /\ plain_dest = <<>>

Init ==
    /\ \E ud \in BOOLEAN, mds \in DictSizes, cols \in 0..MaxColumns :
          new(ud, mds, cols)
    /\ decode_dicts = None
    /\ ret = NoCall
    /\ NoSession
    /\ NoPlain

Next ==
    \/ prepare_compression
    \/ generate_decompress_dictionaries
    \/ generate_decompressors
    \/ generate_compressors

Spec == Init /\ [][Next]_vars

\* A dictionary engine was constructed and trained, compressors, decode
\* dictionaries and decompressors were built in that order, and the caller
\* took column c's compressor and decompressor.
TrainedSession ==
    \E mds \in DictSizes, k \in 1..MaxColumns, c \in 1..MaxColumns,
          tin \in ColumnGroups :
        /\ Len(tin) = k
        /\ c <= k
        /\ LET p == PrepareCompression(NewState(TRUE), TRUE, None, k, mds, tin)
               cr == CompressorsResult(p.state, TRUE, p.raw)
               dd == DecompressDictionaries(p.raw)
               dr == DecompressorsResult(Unwrap(dd))
           IN /\ p.ret.err = ""
              /\ cr.err = ""
              /\ dr.err = ""
              /\ state = p.state
              /\ use_dict = TRUE
              /\ max_dict_size = mds
              /\ raw_dictionaries = TakeRaw(p.raw)
              /\ columns = k
              /\ decode_dicts = dd
              /\ ret = dr
              /\ compressor = Some(Unwrap(cr.val[1])[c])
              /\ decompressor = Some(dr.val[1][c])

\* A codec session on a dictionary engine: the caller brought its own
\* buffers and an empty file.
InitCodec ==
    /\ TrainedSession
    /\ \E tc \in 0..MaxInitCap, oc \in 0..MaxInitCap :
        /\ tmp_buf = [data |-> <<>>, cap |-> tc]
        /\ output = [data |-> <<>>, cap |-> oc]
    /\ handle = <<>>
    /\ written = <<>>
    /\ pc = "idle"
    /\ column_value = <<>>
    /\ multiplier = 1
    /\ attempts = 0
    /\ faults = FALSE
    /\ NoPlain

\* The caller compresses one value into the empty file and then reads the
\* block back, any number of times.
NextCodec ==
    \/ (ret.op = "generate_decompressors" /\ compress_with_dictionary)
    \/ compress_attempt
    \/ decompress_with_dictionary
    \/ decompress_attempt

SpecCodec == InitCodec /\ [][NextCodec]_vars

\* A write session without compressors: generate_compressors gave none (the
\* engine has no dictionary mode) or refused (the engine is pending), and
\* the caller brought its own buffers and an empty file.
InitPassthrough ==
    /\ \E ud \in BOOLEAN, mds \in DictSizes, cols \in 0..MaxColumns :
          new(ud, mds, cols)
    /\ decode_dicts = None
    /\ ret = CompressorsResult(state, use_dict, raw_dictionaries)
    /\ compressor = None
    /\ decompressor = None
    /\ \E tc \in 0..MaxInitCap, oc \in 0..MaxInitCap :
        /\ tmp_buf = [data |-> <<>>, cap |-> tc]
        /\ output = [data |-> <<>>, cap |-> oc]
    /\ handle = <<>>
    /\ written = <<>>
    /\ pc = "idle"
    /\ column_value = <<>>
    /\ multiplier = 1
    /\ attempts = 0
    /\ faults = FALSE
    /\ NoPlain

\* A write session: the writer of a one-column engine with its compressor,
\* or a writer without compressors; the output buffer is not part of it.
InitSink ==
    /\ \/ InitCodec /\ columns = 1
       \/ InitPassthrough
    /\ output.cap = 0

\* The caller writes up to MaxBlocks values to the file, one call after the
\* other with the same scratch buffer, and stops at the first I/O error.
NextSink ==
    \/ (Len(written) < MaxBlocks /\ ret.err # "Io" /\ compress_with_dictionary)
    \/ compress_attempt

SpecSink == InitSink /\ [][NextSink]_vars

\* A read session on a one-column dictionary engine: the file holds one
\* block that the column's compressor wrote, and the caller's output buffer
\* has any content and capacity.
InitDecode ==
    /\ TrainedSession
    /\ columns = 1
    /\ \E v \in Values :
        /\ written = << [block |-> Frame(Unwrap(compressor), v), value |-> v,
                         compressed |-> TRUE] >>
        /\ handle = Frame(Unwrap(compressor), v)
    /\ \E c \in 0..MaxOutCap, l \in 0..MaxOutCap :
        /\ l <= c
        /\ output = [data |-> [i \in 1..l |-> 0], cap |-> c]
    /\ tmp_buf = [data |-> <<>>, cap |-> 0]
    /\ pc = "idle"
    /\ column_value = <<>>
    /\ multiplier = 1
    /\ attempts = 0
    /\ faults = FALSE
    /\ NoPlain

\* The caller reads the block back, any number of times.
NextDecode ==
    \/ decompress_with_dictionary
    \/ decompress_attempt

SpecDecode == InitDecode /\ [][NextDecode]_vars

\* The plain stream codec on any engine.
NextPlain ==
    \/ compress_to
    \/ decompress

SpecPlain == Init /\ [][NextPlain]_vars

\* A call runs to its return: the caller's thread keeps executing the loop.
FairSpecCodec ==
    /\ SpecCodec
    /\ WF_vars(compress_attempt)
    /\ WF_vars(decompress_attempt)

\* ================================================================ claims
\* A step that is a call of prepare_compression / generate_compressors:
\* every call stamps ret with its own name.
PrepareStep == ret'.op = "prepare_compression" /\ vars' # vars

\* C1: generate_compressors called while the state is PendingDictionary
\* returns Err(CompressorNotReady) and no compressors, neither Some nor None.
C1_NotReadyGate ==
    (ret.op = "generate_compressors" /\ state = "PendingDictionary")
        => (ret.err = "CompressorNotReady" /\ ret.val = <<>>)

\* C1 witness: the call was made on a pending two-column engine and refused.
C1_Witness ==
    /\ ret.op = "generate_compressors"
    /\ state = "PendingDictionary"
    /\ ret.err = "CompressorNotReady"
    /\ columns = 2

\* C4 as stated: a prepare_compression call with k # columns column groups
\* always fails with ColumnLenMismatch(columns, k).
C4_Original ==
    (ret.op = "prepare_compression" /\ ret.arg # columns)
        => (ret.err = "ColumnLenMismatch" /\ ret.info = <<columns, ret.arg>>)

\* C4 amended: on a dictionary-enabled engine, a prepare_compression call
\* with k # columns column groups fails with ColumnLenMismatch(columns, k),
\* calls the trainer for no column, and leaves the readiness state and the
\* stored raw dictionaries as they were.
C4_Mismatch ==
    [][(PrepareStep /\ use_dict /\ ret'.arg # columns)
        => /\ ret'.err = "ColumnLenMismatch"
           /\ ret'.info = <<columns, ret'.arg>>
           /\ ret'.codec = <<>>
           /\ state' = state
           /\ raw_dictionaries' = raw_dictionaries]_vars

\* C4 witness: a pending engine answered a mismatching call and stayed pending.
C4_Witness ==
    /\ ret.op = "prepare_compression"
    /\ use_dict
    /\ ret.arg = columns + 1
    /\ ret.err = "ColumnLenMismatch"
    /\ state = "PendingDictionary"

\* C8: a newly constructed engine is in PendingDictionary iff dictionary mode
\* is enabled, else in Ready; it holds no raw dictionaries; and is_ready is
\* true exactly when the state is not PendingDictionary.
C8_NewEngine ==
    /\ ret.op = "new"
        => /\ (state = "PendingDictionary") <=> use_dict
           /\ (state = "Ready") <=> ~use_dict
           /\ raw_dictionaries = None
           /\ is_ready <=> ~use_dict
    /\ is_ready <=> (state # "PendingDictionary")
    /\ state \in {"PendingDictionary", "Ready"}

\* C8 witness: a fresh engine without dictionary mode, ready at once.
C8_Witness ==
    /\ ret.op = "new"
    /\ ~use_dict
    /\ is_ready

\* C9: on a dictionary-enabled engine a prepare_compression call with exactly
\* `columns` groups whose trainings all succeed stores the trainer's
\* dictionaries, one per column in column order, and moves the state to
\* Ready; a generate_compressors call made right after returns `columns`
\* compressors.
C9_TrainThenBuild ==
    [][/\ (PrepareStep /\ use_dict /\ ret'.err = "")
            => /\ ret'.arg = columns
               /\ Len(ret'.codec) = columns
               /\ state' = "Ready"
               /\ raw_dictionaries' =
                    Some([i \in 1..columns |-> ret'.codec[i].dict])
       /\ (/\ ret.op = "prepare_compression" /\ use_dict /\ ret.err = ""
           /\ ret'.op = "generate_compressors")
            => /\ ret'.err = ""
               /\ IsSome(ret'.val[1])
               /\ Len(Unwrap(ret'.val[1])) = columns
               /\ Unwrap(ret'.val[1]) = Unwrap(raw_dictionaries)]_vars

\* C9 witness: two columns were trained to different dictionaries and the
\* compressors were built right after.
C9_Witness ==
    /\ ret.op = "generate_compressors"
    /\ ret.err = ""
    /\ IsSome(ret.val[1])
    /\ Len(Unwrap(ret.val[1])) = 2
    /\ Unwrap(ret.val[1])[1] # Unwrap(ret.val[1])[2]
    /\ columns = 2

\* C10: when training fails for some column, prepare_compression returns the
\* error and changes neither the readiness state nor the stored raw
\* dictionaries, and a prepare_compression call with the right column count
\* can then still succeed and reach Ready.
C10_TrainingFailure ==
    [][(PrepareStep /\ ret'.err = "Codec")
        => /\ state' = state
           /\ raw_dictionaries' = raw_dictionaries
           /\ \E cols \in ColumnGroups :
                LET r == PrepareCompression(state', use_dict', raw_dictionaries',
                                            columns', max_dict_size', cols)
                IN /\ Len(cols) = columns'
                   /\ r.ret.err = ""
                   /\ r.state = "Ready"]_vars

\* C10 witness: the second column failed after the first had trained, on an
\* engine still pending.
C10_Witness ==
    /\ ret.op = "prepare_compression"
    /\ ret.err = "Codec"
    /\ ret.info = <<2>>
    /\ Len(ret.codec) = 2
    /\ ret.codec[1].ok
    /\ state = "PendingDictionary"

\* C2: decompress applied to the bytes compress_to produced for v returns v,
\* with dictionary mode on or off.
C2_PlainRoundTrip ==
    (ret.op = "decompress" /\ plain_dest = StreamFrame(plain_src))
        => (ret.err = "" /\ ret.val = <<plain_src>>)

\* The last call was a compress_with_dictionary given a compressor, and
\* neither the codec (other than for want of room) nor the sink failed in it.
CompressedCleanly ==
    /\ pc = "idle"
    /\ ret.op = "compress_with_dictionary"
    /\ attempts > 0
    /\ ~faults
    /\ ret.err # "Io"

\* The last call was a decompress_with_dictionary of a block that
\* compress_with_dictionary produced with this column's compressor, and the
\* codec did not fail in it other than for want of room.
DecompressedCleanly ==
    /\ pc = "idle"
    /\ ret.op = "decompress_with_dictionary"
    /\ ~faults
    /\ \E i \in 1..Len(written) :
          written[i].compressed /\ written[i].block = column_value

\* C3: for every column and every value, compress_with_dictionary with the
\* column's compressor succeeds, and decompress_with_dictionary of the block
\* with the column's decompressor succeeds and leaves the value in the output
\* buffer.
C3_DictionaryRoundTrip ==
    /\ CompressedCleanly => ret.err = ""
    /\ DecompressedCleanly
        => /\ ret.err = ""
           /\ \E i \in 1..Len(written) :
                /\ written[i].compressed
                /\ written[i].block = column_value
                /\ output.data = written[i].value

\* C5: when the codec fails on every attempt, the operation returns
\* Disconnect only after 5 codec invocations, and never makes more than 5.
C5_FiveTries ==
    /\ attempts <= DisconnectAt
    /\ (pc = "idle" /\ ret.err = "Disconnect") => attempts = DisconnectAt

\* C6: every compress_with_dictionary and decompress_with_dictionary call
\* returns, whatever the codec answers on each attempt; when the sink takes
\* the write the result is success or Disconnect, and Disconnect only after
\* the codec failed on the last try.
C6_Terminates ==
    /\ (pc # "idle") ~> (pc = "idle")
    /\ [](pc \in {"idle", "compress", "decompress"})
    /\ []((pc = "idle" /\ ret.op \in {"compress_with_dictionary",
                                      "decompress_with_dictionary"})
            => ret.err \in {"", "Disconnect", "Io"})
    /\ []((pc # "idle") => multiplier < DisconnectAt)

\* C6 witness: a decompression that the codec refused on every try has
\* returned Disconnect.
C6_Witness ==
    /\ pc = "idle"
    /\ ret.op = "decompress_with_dictionary"
    /\ ret.err = "Disconnect"
    /\ faults

\* C7: for a zero-length value and any starting capacities,
\* compress_with_dictionary with a compressor succeeds, and
\* decompress_with_dictionary of the produced block succeeds and yields the
\* empty value.
C7_EmptyInput ==
    /\ (CompressedCleanly /\ ret.arg = 0) => ret.err = ""
    /\ (DecompressedCleanly /\ column_value = Frame(Unwrap(compressor), <<>>))
        => (ret.err = "" /\ output.data = <<>>)

\* C11: on an engine without dictionaries, prepare_compression returns Ok
\* whatever number of column groups it is given and changes nothing: the
\* state stays Ready and no raw dictionaries are stored.
C11_NoDictNoOp ==
    [][(ret'.op = "prepare_compression" /\ ~use_dict)
        => /\ ret'.err = ""
           /\ ret'.codec = <<>>
           /\ state' = state /\ state' = "Ready"
           /\ raw_dictionaries' = raw_dictionaries
           /\ raw_dictionaries' = None
           /\ <<use_dict', max_dict_size', columns'>>
                = <<use_dict, max_dict_size, columns>>]_vars

\* C11 witness: a non-dictionary two-column engine was given three column
\* groups.
C11_Witness ==
    /\ ret.op = "prepare_compression"
    /\ ~use_dict
    /\ columns = 2
    /\ ret.arg = 3
    /\ ret.err = ""

\* The answer of generate_compressors holds exactly `columns` compressors, or
\* is a construction error.
OnePerColumn ==
    \/ ret.err = "Codec"
    \/ /\ ret.err = ""
       /\ IsSome(ret.val[1])
       /\ Len(Unwrap(ret.val[1])) = columns

\* C12 as stated: in Ready, generate_compressors answers None without
\* dictionary mode and one compressor per column with it, also after
\* generate_decompress_dictionaries.
C12_Original ==
    (ret.op = "generate_compressors" /\ state = "Ready")
        => IF use_dict THEN OnePerColumn ELSE ret = Ok(ret.op, None, 0, <<>>)

\* C12 amended: in Ready, generate_compressors answers None without
\* dictionary mode; with it, one compressor per column while the raw
\* dictionaries are stored, and None once generate_decompress_dictionaries
\* has taken them.
C12_ReadyCompressors ==
    (ret.op = "generate_compressors" /\ state = "Ready")
        => IF use_dict /\ IsSome(raw_dictionaries)
           THEN OnePerColumn
           ELSE ret = Ok(ret.op, None, 0, <<>>)

\* C12 witness: a trained two-column engine whose dictionaries were taken
\* answered None.
C12_Witness ==
    /\ ret.op = "generate_compressors"
    /\ state = "Ready"
    /\ use_dict
    /\ columns = 2
    /\ IsSome(decode_dicts)
    /\ raw_dictionaries = None
    /\ ret.val = <<None>>

\* C13: generate_decompress_dictionaries returns a copy of every stored raw
\* dictionary, one per column, and leaves none stored; with none stored it
\* returns none; it never fails and never changes the readiness state.
C13_TakesDictionaries ==
    [][(ret'.op = "generate_decompress_dictionaries")
        => /\ ret'.err = ""
           /\ state' = state
           /\ raw_dictionaries' = None
           /\ IF IsSome(raw_dictionaries)
              THEN /\ ret'.val = <<Some(Unwrap(raw_dictionaries))>>
                   /\ Len(Unwrap(ret'.val[1])) = columns
              ELSE ret'.val = <<None>>]_vars

\* C13 witness: a second call right after one that returned two
\* dictionaries returned none.
C13_Witness ==
    /\ ret.op = "generate_decompress_dictionaries"
    /\ ret.val = <<None>>
    /\ state = "Ready"
    /\ use_dict
    /\ columns = 2
    /\ raw_dictionaries = None

\* C14: Ready is never left, and the state changes only in a successful
\* prepare_compression on a dictionary engine, from PendingDictionary to
\* Ready.
C14_ReadyTerminal ==
    [][/\ state = "Ready" => state' = "Ready"
       /\ state' # state
            => /\ state = "PendingDictionary"
               /\ state' = "Ready"
               /\ use_dict
               /\ ret'.op = "prepare_compression"
               /\ ret'.err = ""]_vars

\* C14 witness: a trained engine was given a training that failed and is
\* still Ready with its dictionaries.
C14_Witness ==
    /\ state = "Ready"
    /\ use_dict
    /\ ret.op = "prepare_compression"
    /\ ret.err = "Codec"
    /\ IsSome(raw_dictionaries)

\* C19: the stored raw dictionaries, when present, number exactly `columns`;
\* so does every list returned by generate_decompress_dictionaries and
\* generate_compressors; and generate_decompressors, given the list that
\* generate_decompress_dictionaries produced, passes its length assertion and
\* returns one decompressor per column.
C19_PerColumnLength ==
    /\ IsSome(raw_dictionaries) => Len(Unwrap(raw_dictionaries)) = columns
    /\ IsSome(decode_dicts) => Len(Unwrap(decode_dicts)) = columns
    /\ (ret.op \in {"generate_decompress_dictionaries", "generate_compressors"}
          /\ ret.err = "" /\ IsSome(ret.val[1]))
        => Len(Unwrap(ret.val[1])) = columns
    /\ ret.op = "generate_decompressors"
        => /\ ret.err # "AssertionFailed"
           /\ ret.arg = columns
           /\ ret.err = "" => Len(ret.val[1]) = columns

\* C19 witness: a two-column engine's decode dictionaries were turned into
\* two decompressors.
C19_Witness ==
    /\ ret.op = "generate_decompressors"
    /\ ret.err = ""
    /\ columns = 2
    /\ Len(ret.val[1]) = 2
    /\ decode_dicts = Some(ret.val[1])

\* C20: a PendingDictionary engine stores no raw dictionaries, and an engine
\* without dictionary mode is Ready and stores none.
C20_StateAndDictionaries ==
    /\ state = "PendingDictionary" => raw_dictionaries = None
    /\ ~use_dict => (state = "Ready" /\ raw_dictionaries = None)
    /\ IsSome(raw_dictionaries) => (use_dict /\ state = "Ready")

\* C20 witness: a dictionary engine whose training failed is still pending
\* and stores nothing.
C20_Witness ==
    /\ state = "PendingDictionary"
    /\ ret.op = "prepare_compression"
    /\ ret.err = "Codec"
    /\ ret.info = <<2>>
    /\ raw_dictionaries = None

RECURSIVE SinkContent(_)
\* What the successful calls, in call order, should have put in the sink: the
\* compressor's frame of the value, or the value itself without a compressor.
SinkContent(ws) ==
    IF ws = <<>> THEN <<>>
    ELSE SinkContent(SubSeq(ws, 1, Len(ws) - 1))
            \o (IF ws[Len(ws)].compressed
                THEN Frame(Unwrap(compressor), ws[Len(ws)].value)
                ELSE ws[Len(ws)].value)

\* C15: the sink holds exactly the blocks of the successful calls, in call
\* order, with nothing between them; a call that ends in Disconnect adds
\* nothing; after a successful call with a compressor the scratch buffer is
\* empty.
C15_SinkIsConcatenation ==
    /\ ret.err # "Io" => handle = SinkContent(written)
    /\ (pc = "idle" /\ ret.op = "compress_with_dictionary" /\ ret.err = ""
          /\ attempts > 0)
        => Len(tmp_buf.data) = 0

\* C15 witness: two calls with a compressor put two different blocks in the
\* sink, the second after the scratch buffer was reused.
C15_Witness ==
    /\ pc = "idle"
    /\ ret.op = "compress_with_dictionary"
    /\ ret.err = ""
    /\ Len(written) = 2
    /\ written[1].compressed /\ written[2].compressed
    /\ Len(written[1].value) = 2
    /\ Len(written[2].value) = 1
    /\ handle = written[1].block \o written[2].block
    /\ tmp_buf.data = <<>>

\* C16: a compress_with_dictionary call without a compressor appends
\* column_value unchanged to the sink, makes no codec invocation, leaves the
\* scratch buffer and the engine as they are, and fails only with the sink's
\* I/O error, after the sink took a part of the value.
C16_Passthrough ==
    [][(pc = "idle" /\ pc' = "idle" /\ ret'.op = "compress_with_dictionary")
        => /\ ret'.err \in {"", "Io"}
           /\ ret'.err = "" => handle' = handle \o column_value'
           /\ ret'.err = "Io"
                => \E n \in 0..(Len(column_value') - 1) :
                      handle' = handle \o SubSeq(column_value', 1, n)
           /\ tmp_buf' = tmp_buf
           /\ attempts' = 0
           /\ engine' = engine]_vars

\* C16 witness: a value was passed through on a pending engine.
C16_Witness ==
    /\ state = "PendingDictionary"
    /\ compressor = None
    /\ ret.op = "compress_with_dictionary"
    /\ ret.err = ""
    /\ Len(column_value) = 2
    /\ handle = column_value
    /\ attempts = 0

\* C17: after the n-th failed compression attempt of a call, failed for want
\* of room, the scratch buffer offered to the next attempt has at least the
\* capacity of the failed attempt plus column_value.len() * n.
C17_GrowthPerAttempt ==
    [][(pc = "compress" /\ pc' = "compress" /\ multiplier' # multiplier
          /\ ~faults')
        => tmp_buf'.cap >= tmp_buf.cap + Len(column_value) * multiplier]_vars

\* C18: at the first decompression attempt of a call the output buffer's
\* capacity is at least twice the length of the compressed input.
C18_InitialCapacity ==
    (pc = "decompress" /\ attempts = 0)
        => output.cap >= 2 * Len(column_value)

====
